---- MODULE Spec2Model ----
(***************************************************************************)
(* Hypertension assistant (src/main.py): the chat session kept in          *)
(* st.session_state.messages, process_query, and get_gemini_response with  *)
(* its retry loop, response extraction and citation formatting.            *)
(*                                                                         *)
(* Python strings are sequences of tokens (a token is one character of     *)
(* typed input, or an indivisible piece of text), so that string           *)
(* concatenation is \o and the empty string is << >>.  JSON objects are    *)
(* records; the empty dict {} is the function with the empty domain.       *)
(***************************************************************************)
EXTENDS Integers, Sequences, FiniteSets, TLC

VARIABLES
    API_KEY,      \* module constant API_KEY, fixed when the module is loaded
    messages,     \* st.session_state.messages
    pc,           \* position of the script: "idle" (waiting for a UI event) or "fetch"
    user_query,   \* argument of the latest process_query call
    pre,          \* messages at the latest process_query call (history)
    fstate,       \* position inside get_gemini_response
    attempt,      \* loop variable of the retry loop
    netCalls,     \* requests.post calls made by the current fetch (history)
    waits,        \* time.sleep arguments of the current fetch, in order (history)
    upstream,     \* what the latest requests.post produced
    outcomes,     \* class of what each requests.post of the current fetch produced (history)
    response      \* value returned by get_gemini_response

vars == <<API_KEY, messages, pc, user_query, pre, fstate, attempt, netCalls,
          waits, upstream, outcomes, response>>

----------------------------------------------------------------------------
(* Bounds of the model *)

MaxSubmits == 2     \* non-empty queries processed in one session
MaxSources == 4     \* length of a groundingAttributions list

----------------------------------------------------------------------------
(* Constants of the program *)

max_retries == 3

\* the texts of meta, each one token, without their leading emoji
meta == [
    initial_greeting |-> <<"Hi! I'm your **Hypertension Assistant**. I use advanced AI to answer your questions about high blood pressure. Ask away!">>,
    api_fail         |-> <<"I'm sorry, I cannot connect to the AI service right now. Please try again later. This application requires a successful connection to the Gemini API.">>,
    placeholder_fail |-> <<"I'm sorry, the AI could not generate a clear answer to that query. Please rephrase your question or try a suggestion below.">> ]

suggestions == <<
    <<"What is the optimal diet for reducing blood pressure?">>,
    <<"What are the long-term effects of untreated hypertension?">>,
    <<"Can stress significantly raise my blood pressure reading?">>,
    <<"Explain the difference between systolic and diastolic pressure.">> >>

SourcesHeader == <<"\n\n---\n**Sources:**\n">>

----------------------------------------------------------------------------
(* Python values *)

None == "<None>"

EmptyDict == [k \in {} |-> k]

\* key in d
Has(d, k) == d # EmptyDict /\ k \in DOMAIN d

\* d.get(k, default)
Get(d, k, default) == IF Has(d, k) THEN d[k] ELSE default

\* truth value of a str-or-None
TruthyStr(s) == s # None /\ s # ""

----------------------------------------------------------------------------
(* get_gemini_response: extraction of the answer and its citations *)

\* f"- [{title}]({uri})\n"
CitationLine(title, uri) == <<"- [", title, "](", uri, ")\n">>

IsNewUri_NoDedup(uri, unique_uris) == TruthyStr(uri)

\* if uri and uri not in unique_uris
IsNewUri(uri, unique_uris) == TruthyStr(uri) /\ uri \notin unique_uris

\* if len(unique_uris) >= 3: break
CapReached(unique_uris) == Cardinality(unique_uris) >= 3

\* for source in sources: ... ; the value of citations when the loop ends
RECURSIVE CiteLoop(_, _, _, _)
CiteLoop(sources, i, citations, unique_uris) ==
    IF i > Len(sources) THEN citations
    ELSE LET source == sources[i]
             uri    == Get(Get(source, "web", EmptyDict), "uri", None)
             title  == Get(Get(source, "web", EmptyDict), "title", "Link")
         IN  IF IsNewUri(uri, unique_uris)
             THEN LET added == citations \o CitationLine(title, uri)
                      seen  == unique_uris \cup {uri}
                  IN  IF CapReached(seen) THEN added
                      ELSE CiteLoop(sources, i + 1, added, seen)
             ELSE CiteLoop(sources, i + 1, citations, unique_uris)

\* citations = "" ; if sources: citations = header ; loop
Citations(sources) ==
    IF Len(sources) > 0 THEN CiteLoop(sources, 1, SourcesHeader, {}) ELSE << >>

\* sources = [] ; if grounding_metadata and grounding_metadata.get('groundingAttributions')
GroundingSources(candidate) ==
    LET grounding_metadata == Get(candidate, "groundingMetadata", EmptyDict)
    IN  Get(grounding_metadata, "groundingAttributions", << >>)

\* the body of the try block after response.json(): what one parsed reply leads to
\*   "return":      return text + citations
\*   "fallthrough": the if is false, the loop body ends without a return
\*   "raise":       an exception the except clause does not catch
HandleResult(result) ==
    LET candidates == Get(result, "candidates", <<EmptyDict>>)
    IN  IF Len(candidates) = 0
        THEN [kind |-> "raise", exc |-> "IndexError"]
        ELSE LET candidate == candidates[1]
             IN  IF candidate = EmptyDict THEN [kind |-> "fallthrough"]
                 ELSE IF Get(candidate, "content", EmptyDict) = EmptyDict
                 THEN [kind |-> "fallthrough"]
                 ELSE IF ~Has(candidate.content, "parts")
                 THEN [kind |-> "raise", exc |-> "KeyError"]
                 ELSE IF Len(candidate.content.parts) = 0
                 THEN [kind |-> "fallthrough"]
                 ELSE LET text == Get(candidate.content.parts[1], "text",
                                      meta.placeholder_fail)
                      IN  [kind  |-> "return",
                           value |-> text \o Citations(GroundingSources(candidate))]

\* except (requests.exceptions.RequestException, json.JSONDecodeError)
IsCaught(exc) == exc \in {"ConnectionError", "Timeout", "HTTPError", "JSONDecodeError"}

\* if attempt < max_retries - 1
ShouldRetry(n) == n < max_retries - 1

WaitTime_Doubled(n) == 2 * n

\* wait_time = 2 ** attempt
WaitTime(n) == 2 ^ n

----------------------------------------------------------------------------
(* What the upstream service can answer to one requests.post *)

AnswerText == <<"Reduce sodium intake...">>

WebSource(uri, title) == [web |-> [uri |-> uri, title |-> title]]

\* attributions: without 'web', with an empty uri, without a title, and four
\* distinct URIs (one more than the cap)
Sources == {
    [retrievedContext |-> "doc"],
    [web |-> [uri |-> "", title |-> "t0"]],
    WebSource("u1", "t1"),
    [web |-> [uri |-> "u2"]],
    WebSource("u3", "t3"),
    WebSource("u4", "t4") }

SourceLists(pool, n) == UNION { [1..k -> pool] : k \in 0..n }

Parts == { [text |-> AnswerText], [functionCall |-> "google_search"] }

Content(part) == [role |-> "model", parts |-> <<part>>]

\* parsed bodies whose first candidate carries a non-empty parts list
AnswerBodies(pool, n) ==
    { [candidates |-> <<[content |-> Content(p)]>>] : p \in Parts }
    \cup { [candidates |-> <<[content |-> Content(p),
                              groundingMetadata |-> [webSearchQueries |-> "q"]]>>] :
            p \in Parts }
    \cup { [candidates |-> <<[content |-> Content(p),
                              groundingMetadata |-> [groundingAttributions |-> l]]>>] :
            p \in Parts, l \in SourceLists(pool, n) }

\* parsed bodies without a usable first candidate
OtherBodies == {
    [promptFeedback |-> "BLOCKED"],
    [candidates |-> << >>],
    [candidates |-> <<EmptyDict>>],
    [candidates |-> <<[finishReason |-> "SAFETY"]>>],
    [candidates |-> <<[content |-> [role |-> "model"]]>>],
    [candidates |-> <<[content |-> [role |-> "model", parts |-> << >>]]>>] }

\* an exception raised before the candidate is read: by requests.post, by
\* raise_for_status, by response.json(), or by result.get when the parsed body is
\* not a JSON object (AttributeError)
Errors ==
    { [kind |-> e] :
        e \in {"ConnectionError", "Timeout", "HTTPError", "JSONDecodeError", "AttributeError"} }

\* what one requests.post can lead to: an exception, or a parsed JSON object
Replies(bodies) == Errors \cup { [kind |-> "json", result |-> b] : b \in bodies }

\* one fetch studied alone: every body up to MaxSources attributions
FetchReplies == Replies(OtherBodies \cup AnswerBodies(Sources, MaxSources))

\* a whole session: one body of each outcome
SessionReplies ==
    { [kind |-> "HTTPError"], [kind |-> "JSONDecodeError"] }
    \cup { [kind |-> "json", result |-> b] : b \in
             { [promptFeedback |-> "BLOCKED"],
               [candidates |-> << >>],
               [candidates |-> <<[content |-> Content([text |-> AnswerText])]>>],
               [candidates |-> <<[content |-> Content([text |-> AnswerText]),
                                  groundingMetadata |->
                                      [groundingAttributions |-> <<WebSource("u1", "t1")>>]]>>] } }

NoReply == [kind |-> "none"]

\* network error, timeout or bad status / unparsable body / parsed body
Class(r) ==
    IF r.kind \in {"ConnectionError", "Timeout", "HTTPError"} THEN "transport"
    ELSE IF r.kind = "JSONDecodeError" THEN "json_error"
    ELSE "json"

----------------------------------------------------------------------------
(* The session *)

\* typed input: the empty string, a blank and a letter
TypedQueries == { << >>, <<" ">>, <<"a">> }

Message(role, text) == [role |-> role, text |-> text]

NumUser(msgs) == Cardinality({ i \in 1..Len(msgs) : msgs[i].role = "user" })

\* if "messages" not in st.session_state: ... ; API_KEY as the module load left it
Init ==
    /\ API_KEY \in {"", "key"}
    /\ messages = <<Message("bot", meta.initial_greeting)>>
    /\ pc = "idle"
    /\ user_query = << >>
    /\ pre = messages
    /\ fstate = "Idle"
    /\ attempt = 0
    /\ netCalls = 0
    /\ waits = << >>
    /\ upstream = NoReply
    /\ outcomes = << >>
    /\ response = << >>

\* no call of get_gemini_response is active: its locals do not exist
LocalsGone ==
    /\ fstate' = "Idle"
    /\ attempt' = 0
    /\ netCalls' = 0
    /\ waits' = << >>
    /\ upstream' = NoReply
    /\ outcomes' = << >>
    /\ response' = << >>

\* if not user_query
IsEmptyQuery(q) == Len(q) = 0

\* process_query up to the call of get_gemini_response
process_query(q) ==
    /\ pc = "idle"
    /\ user_query' = q
    /\ pre' = messages
    /\ IF IsEmptyQuery(q)
       THEN UNCHANGED <<messages, pc>>
       ELSE /\ NumUser(messages) < MaxSubmits
            /\ messages' = Append(messages, Message("user", q))
            /\ pc' = "fetch"
    /\ LocalsGone
    /\ UNCHANGED API_KEY

\* if submitted: process_query(st.session_state.user_input_text)
Send == \E q \in TypedQueries : process_query(q)

\* if cols[i % 3].button(sug, ...): process_query(sug)
SuggestionClick == \E i \in 1..Len(suggestions) : process_query(suggestions[i])

KeyMissing_IsNone == API_KEY = None

\* if not API_KEY
KeyMissing == API_KEY = ""

\* get_gemini_response up to the loop: the API key check
Begin ==
    /\ pc = "fetch" /\ fstate = "Idle"
    /\ IF KeyMissing
       THEN /\ response' = meta.api_fail
            /\ fstate' = "NoCredential"
       ELSE /\ fstate' = "Attempting"
            /\ UNCHANGED response
    /\ UNCHANGED <<API_KEY, messages, pc, user_query, pre, attempt, netCalls, waits, upstream,
                   outcomes>>

\* one iteration of the retry loop, up to a sleep, a return or the next iteration
Attempt(replies) ==
    /\ pc = "fetch" /\ fstate = "Attempting"
    /\ \E r \in replies :
        LET out == IF r.kind = "json" THEN HandleResult(r.result)
                   ELSE [kind |-> "raise", exc |-> r.kind]
        IN  /\ upstream' = r
            /\ outcomes' = Append(outcomes, Class(r))
            /\ netCalls' = netCalls + 1
            /\ CASE out.kind = "return" ->
                     /\ response' = out.value
                     /\ fstate' = "Success"
                     /\ UNCHANGED <<attempt, waits>>
                 [] out.kind = "fallthrough" /\ attempt + 1 < max_retries ->
                     /\ attempt' = attempt + 1
                     /\ UNCHANGED <<fstate, waits, response>>
                 [] out.kind = "fallthrough" /\ ~(attempt + 1 < max_retries) ->
                     /\ response' = meta.placeholder_fail
                     /\ fstate' = "Success"
                     /\ UNCHANGED <<attempt, waits>>
                 [] out.kind = "raise" /\ IsCaught(out.exc) /\ ShouldRetry(attempt) ->
                     /\ waits' = Append(waits, WaitTime(attempt))
                     /\ fstate' = "RetryWait"
                     /\ UNCHANGED <<attempt, response>>
                 [] out.kind = "raise" /\ IsCaught(out.exc) /\ ~ShouldRetry(attempt) ->
                     /\ response' = meta.api_fail
                     /\ fstate' = "Exhausted"
                     /\ UNCHANGED <<attempt, waits>>
                 [] out.kind = "raise" /\ ~IsCaught(out.exc) ->
                     /\ fstate' = "Raised"
                     /\ UNCHANGED <<attempt, waits, response>>
    /\ UNCHANGED <<API_KEY, messages, pc, user_query, pre>>

AttemptSession == Attempt(SessionReplies)

AttemptFetch == Attempt(FetchReplies)

\* time.sleep(wait_time) returns and the loop goes on
Wake ==
    /\ pc = "fetch" /\ fstate = "RetryWait"
    /\ attempt' = attempt + 1
    /\ fstate' = "Attempting"
    /\ UNCHANGED <<API_KEY, messages, pc, user_query, pre, netCalls, waits, upstream,
                   outcomes, response>>

Returned == {"Success", "Exhausted", "NoCredential"}

AppendBot_Overwrite ==
    /\ pc = "fetch" /\ fstate \in Returned
    /\ messages' = [messages EXCEPT ![Len(messages)] = Message("bot", response)]
    /\ pc' = "idle"
    /\ LocalsGone
    /\ UNCHANGED <<API_KEY, user_query, pre>>

\* st.session_state.messages.append({"role": "bot", "text": response}) ; st.rerun()
AppendBot ==
    /\ pc = "fetch" /\ fstate \in Returned
    /\ messages' = Append(messages, Message("bot", response))
    /\ pc' = "idle"
    /\ LocalsGone
    /\ UNCHANGED <<API_KEY, user_query, pre>>

\* the uncaught exception leaves process_query and ends the script run
Crash ==
    /\ pc = "fetch" /\ fstate = "Raised"
    /\ pc' = "idle"
    /\ LocalsGone
    /\ UNCHANGED <<API_KEY, messages, user_query, pre>>

Next == Send \/ SuggestionClick \/ Begin \/ AttemptSession \/ Wake \/ AppendBot \/ Crash

Spec == Init /\ [][Next]_vars

\* the first suggestion clicked once
FirstClick == Len(messages) = 1 /\ process_query(suggestions[1])

FetchNext == FirstClick \/ Begin \/ AttemptFetch \/ Wake \/ AppendBot \/ Crash

SpecFetch == Init /\ [][FetchNext]_vars

----------------------------------------------------------------------------
(* Properties *)

IsBlank(q) == \A i \in 1..Len(q) : q[i] = " "

IsPrefix(s, t) == Len(s) <= Len(t) /\ \A i \in 1..Len(s) : s[i] = t[i]

Range(s) == { s[i] : i \in 1..Len(s) }

\* the reply is a parsed body whose first candidate carries a non-empty parts list
HasParts(r) ==
    /\ r.kind = "json"
    /\ Has(r.result, "candidates")
    /\ Len(r.result.candidates) > 0
    /\ Has(r.result.candidates[1], "content")
    /\ Has(r.result.candidates[1].content, "parts")
    /\ Len(r.result.candidates[1].content.parts) > 0

\* the reply is a parsed body with the expected shape: an answer text can be extracted
HasAnswerText(r) == HasParts(r) /\ Has(r.result.candidates[1].content.parts[1], "text")

\* the answer of a reply with parts: its text, or the placeholder when it has none
AnswerOf(r) ==
    IF HasAnswerText(r) THEN r.result.candidates[1].content.parts[1].text
    ELSE meta.placeholder_fail

\* the URIs of the grounding attributions of a reply, "" for an empty or missing one
AttributionUris(r) ==
    LET c == r.result.candidates[1]
        l == IF Has(c, "groundingMetadata")
                /\ Has(c.groundingMetadata, "groundingAttributions")
             THEN c.groundingMetadata.groundingAttributions ELSE << >>
    IN  [i \in 1..Len(l) |->
            IF Has(l[i], "web") /\ Has(l[i].web, "uri") THEN l[i].web.uri ELSE ""]

\* the URIs listed in a returned text: answer, header, then five tokens a line
ListedUris(text) == [i \in 1..((Len(text) - 2) \div 5) |-> text[2 + 5 * i - 1]]

HasSourcesSection(text) == \E i \in 1..Len(text) : <<text[i]>> = SourcesHeader

FirstIndex(l, u) == CHOOSE i \in 1..Len(l) : l[i] = u /\ \A j \in 1..(i - 1) : l[j] # u

\* get_gemini_response returned at "return text + citations"
ReturnedAnswer == pc = "fetch" /\ fstate = "Success" /\ HasParts(upstream)

\* every attempt of the current fetch failed at the transport level
AllTransport == \A i \in 1..Len(outcomes) : outcomes[i] = "transport"

\* this step is one attempt of the retry loop
AttemptStep == fstate = "Attempting" /\ netCalls' = netCalls + 1

\* what the except clause does with a transport error on this attempt
HandledLikeTransportError ==
    IF attempt < 2
    THEN fstate' = "RetryWait" /\ waits' = Append(waits, 2 ^ attempt) /\ attempt' = attempt
    ELSE fstate' = "Exhausted" /\ response' = meta.api_fail /\ waits' = waits

\* C1: a submit of an empty or whitespace-only query leaves the transcript as it
\* was and starts no fetch.
C1_BlankSubmitIsNoOp ==
    [][ (pc = "idle" /\ IsBlank(user_query'))
            => (messages' = messages /\ pc' = "idle" /\ netCalls' = 0) ]_vars

\* C2: a submit of a non-empty query ends with exactly two more messages than it
\* started with: the user's query, then the fetch's text on Success or the
\* apology on Failure.
C2_SubmitAppendsTwo ==
    [][ (pc = "fetch" /\ pc' = "idle")
            => messages' = pre \o << Message("user", user_query),
                                     Message("bot", IF fstate = "Success" THEN response
                                                    ELSE meta.api_fail) >> ]_vars

\* C3: with a credential, while every attempt fails at the transport level the
\* fetch sleeps 1 after the 1st and 2 after the 2nd attempt, and the 3rd failure
\* ends it, with 3 calls made, no further sleep, and the apology returned.
C3_ThreeAttemptsBackoff ==
    (pc = "fetch" /\ API_KEY # "" /\ AllTransport /\ fstate # "Idle") =>
        /\ netCalls = Len(outcomes)
        /\ netCalls <= 3
        /\ netCalls = 0 => (fstate = "Attempting" /\ waits = << >>)
        /\ netCalls = 1 => (waits = <<1>> /\ fstate \in {"RetryWait", "Attempting"})
        /\ netCalls = 2 => (waits = <<1, 2>> /\ fstate \in {"RetryWait", "Attempting"})
        /\ netCalls = 3 => (waits = <<1, 2>> /\ fstate = "Exhausted"
                            /\ response = meta.api_fail)

C3_Witness ==
    pc = "fetch" /\ API_KEY # "" /\ AllTransport /\ fstate = "Exhausted" /\ netCalls = 3

\* C4: the URIs listed in a returned answer are the first (up to) 3 distinct
\* non-empty URIs of the attributions, each once, in order of first occurrence.
C4_CitationsFirstThreeDistinct ==
    ReturnedAnswer =>
        LET A == AttributionUris(upstream)
            L == ListedUris(response)
        IN  /\ Len(L) <= 3
            /\ \A i, j \in 1..Len(L) : i # j => L[i] # L[j]
            /\ \A i \in 1..Len(L) : L[i] # "" /\ L[i] \in Range(A)
            /\ \A i, j \in 1..Len(L) : i < j => FirstIndex(A, L[i]) < FirstIndex(A, L[j])
            /\ \A j \in 1..Len(A) :
                  (A[j] # "" /\ Cardinality({ A[k] : k \in 1..(j - 1) } \ {"", A[j]}) < 3)
                      => A[j] \in Range(L)
            /\ Len(response) = 1 \/ Len(response) = 2 + 5 * Len(L)

C4_Witness ==
    /\ ReturnedAnswer
    /\ Cardinality(Range(AttributionUris(upstream)) \ {""}) = 4
    /\ Len(ListedUris(response)) = 3

\* C5: a returned answer without citations is the answer text alone, and a
\* Sources section is there only with at least one citation listed in it.
C5_NoSourcesWithoutCitations ==
    ReturnedAnswer =>
        /\ (Range(AttributionUris(upstream)) \subseteq {""}) => response = AnswerOf(upstream)
        /\ HasSourcesSection(response) => Len(ListedUris(response)) >= 1

\* C6: without a credential the fetch makes no network call and no sleep, and
\* returns the apology.
C6_MissingCredentialShortCircuit ==
    (pc = "fetch" /\ API_KEY = "") =>
        /\ netCalls = 0 /\ waits = << >> /\ attempt = 0
        /\ fstate \in {"Idle", "NoCredential"}
        /\ fstate = "NoCredential" => response = meta.api_fail

C6_Witness == pc = "fetch" /\ API_KEY = "" /\ fstate = "NoCredential"

\* C7: an attempt whose reply cannot be parsed, or parses without the expected
\* shape, is handled like a transport error: a sleep of 2^attempt and a retry, or
\* the apology after the final attempt.
C7_MalformedLikeTransport ==
    [][ (AttemptStep /\ (upstream'.kind \in {"JSONDecodeError", "AttributeError"}
                         \/ (upstream'.kind = "json" /\ ~HasAnswerText(upstream'))))
            => HandledLikeTransportError ]_vars

\* C8: an attempt whose reply parses but has no extractable answer text ends the
\* fetch as a Success with the placeholder.
C8_NoUsableTextIsPlaceholder ==
    [][ (AttemptStep /\ upstream'.kind = "json" /\ ~HasAnswerText(upstream'))
            => (fstate' = "Success" /\ response' = meta.placeholder_fail) ]_vars

\* C9: the transcript starts with the greeting and every step leaves it as a
\* prefix of the new one.
C9_TranscriptAppendOnly ==
    [][ /\ Len(messages) >= 1
        /\ messages[1] = Message("bot", meta.initial_greeting)
        /\ IsPrefix(messages, messages') ]_vars

C9_Witness ==
    /\ Len(messages) = 5
    /\ messages[3].text = meta.api_fail
    /\ messages[4].role = "user"

\* C10: with a credential a fetch moves Idle -> Attempting(0), from Attempting(n)
\* to Success, to RetryWait(n) or, after the 3rd attempt, to Exhausted, from
\* RetryWait(n) to Attempting(n+1), and ends only from Success or Exhausted.
C10_FetchStateMachine ==
    [][ (pc = "fetch" /\ API_KEY # "") =>
            \/ fstate = "Idle" /\ fstate' = "Attempting" /\ attempt' = 0
            \/ fstate = "Attempting" /\ fstate' = "Success"
            \/ fstate = "Attempting" /\ fstate' = "RetryWait" /\ attempt' = attempt
            \/ fstate = "Attempting" /\ fstate' = "Exhausted" /\ attempt = 2
            \/ fstate = "RetryWait" /\ fstate' = "Attempting"
                   /\ attempt' = attempt + 1 /\ attempt' <= 2
            \/ fstate \in {"Success", "Exhausted"} /\ pc' = "idle" ]_vars

====
